---- MODULE Spec2Model ----
(***************************************************************************)
(* The virtual try-on studio (App component): the outfit history store     *)
(* (history + historyStep cursor), the per-layer pose-image cache, the     *)
(* isLoading / isScoring latches and the asynchronous handlers that call   *)
(* the generation gateway.                                                 *)
(*                                                                         *)
(* React semantics kept by the model:                                      *)
(*  - a handler started by a UI event reads the state of the latest        *)
(*    render, i.e. the current values of the variables;                    *)
(*  - the code that runs after an `await` still reads the values captured  *)
(*    by the closure when the handler was started; an in-flight record     *)
(*    therefore carries the captured history, historyStep,                 *)
(*    currentPoseIndex and modelImageUrl;                                  *)
(*  - all setState calls of one synchronous handler segment are one        *)
(*    atomic step.                                                         *)
(* loadingMessage and isSheetCollapsed are presentation only and are not   *)
(* modelled.                                                               *)
(***************************************************************************)
EXTENDS Integers, Sequences, FiniteSets, TLC

\* ---------------------------------------------------------------- bounds
\* Number of pose labels of POSE_INSTRUCTIONS the model keeps (the code has 6).
NumPoses == 2
\* Number of seed items of defaultWardrobe the model keeps (the code has 6).
NumGarments == 2
\* Upper bound of the clock. The clock ticks at every user intent that adds
\* something: a generated image, a Date.now() id, a garment click, a saved or
\* restored look, a critique request.
MaxClock == 3
\* Longest error message, in tokens, that the error classifier is run on.
MaxMessageLen == 2

VARIABLES
    modelImageUrl,      \* useState<string | null>
    history,            \* useState<OutfitLayer[][]>
    historyStep,        \* useState(-1)
    isLoading,          \* useState(false)
    error,              \* useState<string | null>
    currentPoseIndex,   \* useState(0)
    wardrobe,           \* useState<WardrobeItem[]>(defaultWardrobe)
    styleScore,         \* useState<{score, review} | null>
    isScoring,          \* useState(false)
    storage,            \* localStorage slot 'gregorious_studio_v3'
    inflight,           \* suspended async handlers (awaiting urlToFile or the gateway)
    timers,             \* pending setTimeout(() => setIsLoading(false), 1500)
    clock,              \* logical time: source of fresh image references and ids
    call,               \* the gateway call under study (retryWithBackoff's frame)
    report              \* the caught error under study and what the catch block made of it

vars == <<modelImageUrl, history, historyStep, isLoading, error, currentPoseIndex,
          wardrobe, styleScore, isScoring, storage, inflight, timers, clock, call,
          report>>

\* The state of the studio (App), without the gateway call under study.
appVars == <<modelImageUrl, history, historyStep, isLoading, error, currentPoseIndex,
             wardrobe, styleScore, isScoring, storage, inflight, timers, clock>>

\* ---------------------------------------------------------------- data
\* null / undefined
Null == [null |-> TRUE]

Poses == 0 .. (NumPoses - 1)

\* A WardrobeItem, identified by its id (name and url are fixed by the id).
StudioItem(i) == [tag |-> "studio", n |-> i]

defaultWardrobe == [i \in 1 .. NumGarments |-> StudioItem(i)]

\* An image reference: a fresh id and the pose the picture actually shows.
Image(i, p) == [id |-> i, pose |-> p]

\* poseImages is a JS object: an insertion-ordered list of (label, image) entries.
PoseKeys(poseImages) == {poseImages[k].pose : k \in DOMAIN poseImages}

\* poseImages[label], or Null for `undefined`.
PoseGet(poseImages, label) ==
    IF \E k \in DOMAIN poseImages : poseImages[k].pose = label
    THEN LET k == CHOOSE j \in DOMAIN poseImages : poseImages[j].pose = label
         IN poseImages[k].img
    ELSE Null

\* Faulty variant: no fallback to the first pose image.
PoseFirst_None(poseImages) == Null

\* Object.values(poseImages)[0], or Null for `undefined`.
PoseFirst(poseImages) == IF Len(poseImages) = 0 THEN Null ELSE poseImages[1].img

\* Faulty variant: the new entry replaces the object instead of being spread in.
PosePut_Replaces(poseImages, label, img) == <<[pose |-> label, img |-> img]>>

\* {...poseImages, [label]: img}: overwrite in place or append.
PosePut(poseImages, label, img) ==
    IF label \in PoseKeys(poseImages)
    THEN [k \in DOMAIN poseImages |->
             IF poseImages[k].pose = label THEN [pose |-> label, img |-> img]
             ELSE poseImages[k]]
    ELSE Append(poseImages, [pose |-> label, img |-> img])

\* history[historyStep] || []
CurrentOutfit(h, s) == IF (s + 1) \in DOMAIN h THEN h[s + 1] ELSE <<>>

currentOutfitHistory == CurrentOutfit(history, historyStep)

\* displayImageUrl of a render with history h, cursor s, pose p and model image m.
DisplayImage(h, s, p, m) ==
    LET cur == CurrentOutfit(h, s) IN
    IF Len(cur) = 0 THEN m
    ELSE LET pi == cur[Len(cur)].poseImages
             hit == PoseGet(pi, p)
         IN IF hit # Null THEN hit ELSE PoseFirst(pi)

displayImageUrl == DisplayImage(history, historyStep, currentPoseIndex, modelImageUrl)

\* activeGarmentIds
activeGarmentIds ==
    {currentOutfitHistory[k].garment : k \in DOMAIN currentOutfitHistory} \ {Null}

\* The main screen (Canvas, OutfitStack, WardrobePanel) is rendered; otherwise
\* the start screen is.
MainShown == modelImageUrl # Null

\* addToHistory evaluated in a closure that captured history h and cursor s.
AddToHistoryHist(h, s, snapshot) == Append(SubSeq(h, 1, s + 1), snapshot)

\* Faulty variant: the cursor is set to the old length (right only when nothing is cut).
AddToHistoryStep_OldLength(h, s, snapshot) == Len(h)

AddToHistoryStep(h, s, snapshot) == Len(AddToHistoryHist(h, s, snapshot)) - 1

\* No gateway call is being followed.
NoCall ==
    [phase |-> "idle", op |-> "none", input |-> <<>>, apiKey |-> "", retries |-> 0,
     delay |-> 0, log |-> <<>>, delays |-> <<>>, outcomes |-> <<>>]

\* No error is under study.
NoReport == [thrown |-> "none"]

\* ---------------------------------------------------------------- mount
\* The startup effect: restore the saved look, if any, into fresh state.
RestoredHistory(saved) == <<saved.outfitHistory>>

RestoredWardrobe(saved) ==
    LET prev == defaultWardrobe
        uniq == SelectSeq(saved.wardrobe,
                          LAMBDA sw : \A k \in DOMAIN prev : prev[k] # sw)
    IN prev \o uniq

Init ==
    /\ modelImageUrl = Null
    /\ history = <<>>
    /\ historyStep = -1
    /\ isLoading = FALSE
    /\ error = Null
    /\ currentPoseIndex = 0
    /\ wardrobe = defaultWardrobe
    /\ styleScore = Null
    /\ isScoring = FALSE
    /\ storage = Null
    /\ inflight = {}
    /\ timers = 0
    /\ clock = 0
    /\ call = NoCall
    /\ report = NoReport

\* A page reload: the component is constructed again and the startup effect runs;
\* suspended handlers and timers of the old page are gone.
Mount ==
    /\ isLoading' = FALSE
    /\ error' = Null
    /\ currentPoseIndex' = 0
    /\ styleScore' = Null
    /\ isScoring' = FALSE
    /\ inflight' = {}
    /\ timers' = 0
    /\ IF storage # Null /\ storage.modelImageUrl # Null
       THEN /\ modelImageUrl' = storage.modelImageUrl
            /\ history' = RestoredHistory(storage)
            /\ historyStep' = 0
            /\ wardrobe' = RestoredWardrobe(storage)
       ELSE /\ modelImageUrl' = Null
            /\ history' = <<>>
            /\ historyStep' = -1
            /\ wardrobe' = defaultWardrobe
    /\ UNCHANGED <<storage, clock>>
    /\ UNCHANGED <<call, report>>

\* ---------------------------------------------------------------- history store
handleModelFinalized ==
    /\ ~MainShown
    /\ clock < MaxClock
    /\ LET url == Image(clock + 1, 0)
           initialLayer == [garment |-> Null,
                            poseImages |-> <<[pose |-> 0, img |-> url]>>]
       IN /\ modelImageUrl' = url
          /\ history' = AddToHistoryHist(history, historyStep, <<initialLayer>>)
          /\ historyStep' = AddToHistoryStep(history, historyStep, <<initialLayer>>)
    /\ clock' = clock + 1
    /\ UNCHANGED <<isLoading, error, currentPoseIndex, wardrobe, styleScore,
                   isScoring, storage, inflight, timers>>
    /\ UNCHANGED <<call, report>>

\* Faulty variant: undo without its guard.
UndoStep_NoGuard(s) == s - 1

\* setHistoryStep(prev => prev - 1) under undo's guard.
UndoStep(s) == IF s > 0 THEN s - 1 ELSE s

undo ==
    /\ MainShown
    /\ ~isLoading
    /\ historyStep' = UndoStep(historyStep)
    /\ IF historyStep > 0
       THEN currentPoseIndex' = 0 /\ styleScore' = Null
       ELSE UNCHANGED <<currentPoseIndex, styleScore>>
    /\ UNCHANGED <<modelImageUrl, history, isLoading, error, wardrobe, isScoring,
                   storage, inflight, timers, clock>>
    /\ UNCHANGED <<call, report>>

\* Faulty variant: redo without its guard.
RedoStep_NoGuard(h, s) == s + 1

\* setHistoryStep(prev => prev + 1) under redo's guard.
RedoStep(h, s) == IF s < Len(h) - 1 THEN s + 1 ELSE s

redo ==
    /\ MainShown
    /\ ~isLoading
    /\ historyStep' = RedoStep(history, historyStep)
    /\ IF historyStep < Len(history) - 1
       THEN currentPoseIndex' = 0 /\ styleScore' = Null
       ELSE UNCHANGED <<currentPoseIndex, styleScore>>
    /\ UNCHANGED <<modelImageUrl, history, isLoading, error, wardrobe, isScoring,
                   storage, inflight, timers, clock>>
    /\ UNCHANGED <<call, report>>

\* ---------------------------------------------------------------- persistence
handleSaveOutfit ==
    /\ MainShown
    /\ clock < MaxClock
    /\ clock' = clock + 1
    /\ IF Len(currentOutfitHistory) = 0
       THEN UNCHANGED storage
       ELSE storage' = [modelImageUrl |-> modelImageUrl,
                        outfitHistory |-> currentOutfitHistory,
                        wardrobe |-> SelectSeq(wardrobe, LAMBDA w : w.tag # "recolor")]
    /\ UNCHANGED <<modelImageUrl, history, historyStep, isLoading, error,
                   currentPoseIndex, wardrobe, styleScore, isScoring, inflight,
                   timers>>
    /\ UNCHANGED <<call, report>>

NoSavedLook == [cat |-> "NoSavedLook", ctx |-> ""]

handleLoadOutfit ==
    /\ MainShown
    /\ IF storage = Null
       THEN /\ error' = NoSavedLook
            /\ UNCHANGED <<modelImageUrl, history, historyStep, clock>>
       ELSE /\ clock < MaxClock
            /\ clock' = clock + 1
            /\ modelImageUrl' = storage.modelImageUrl
            /\ history' = AddToHistoryHist(history, historyStep, storage.outfitHistory)
            /\ historyStep' = AddToHistoryStep(history, historyStep, storage.outfitHistory)
            /\ error' = Null
    /\ UNCHANGED <<isLoading, currentPoseIndex, wardrobe, styleScore, isScoring,
                   storage, inflight, timers>>
    /\ UNCHANGED <<call, report>>

\* window.confirm answers `confirmed`.
handleStartOver(confirmed) ==
    /\ MainShown
    /\ IF confirmed
       THEN /\ modelImageUrl' = Null
            /\ history' = <<>>
            /\ historyStep' = -1
            /\ error' = Null
            /\ styleScore' = Null
            /\ storage' = Null
       ELSE UNCHANGED <<modelImageUrl, history, historyStep, error, styleScore,
                        storage>>
    /\ UNCHANGED <<isLoading, currentPoseIndex, wardrobe, isScoring, inflight,
                   timers, clock>>
    /\ UNCHANGED <<call, report>>

\* Faulty variant: slice(1) instead of slice(0, -1).
DropLast_First(snapshot) == SubSeq(snapshot, 2, Len(snapshot))

\* currentOutfitHistory.slice(0, -1)
DropLast(snapshot) == SubSeq(snapshot, 1, Len(snapshot) - 1)

handleRemoveLastGarment ==
    /\ MainShown
    /\ IF Len(currentOutfitHistory) > 1
       THEN /\ history' = AddToHistoryHist(history, historyStep,
                                           DropLast(currentOutfitHistory))
            /\ historyStep' = AddToHistoryStep(history, historyStep,
                                               DropLast(currentOutfitHistory))
            /\ currentPoseIndex' = 0
            /\ styleScore' = Null
       ELSE UNCHANGED <<history, historyStep, currentPoseIndex, styleScore>>
    /\ UNCHANGED <<modelImageUrl, isLoading, error, wardrobe, isScoring, storage,
                   inflight, timers, clock>>
    /\ UNCHANGED <<call, report>>

\* ---------------------------------------------------------------- gateway calls
\* A suspended handler: what it awaits (kind), the image id its call will return,
\* the state its closure captured (h, s, pose, model) and its argument.
Suspended(kind, id, arg) ==
    [kind |-> kind, id |-> id, h |-> history, s |-> historyStep,
     pose |-> currentPoseIndex, model |-> modelImageUrl, arg |-> arg]

\* A suspended handler whose continuation reads nothing of the captured state
\* but its argument (handleRecolor, handleGetStyleScore).
SuspendedArg(kind, id, arg) ==
    [kind |-> kind, id |-> id, h |-> <<>>, s |-> -1, pose |-> 0, model |-> Null,
     arg |-> arg]

\* message.includes(marker)
Includes(message, marker) == \E k \in DOMAIN message : message[k] = marker

\* The messages of the errors the gateway itself throws.
SafetyMessage == <<"SAFETY", ":", "The", "studio's", "safety", "filters", "flagged",
                   "this", "image">>

ApiKeyMessage == <<"API_KEY", "not", "configured">>

InvalidDataUrlMessage == <<"Invalid", "data", "URL", "format">>

MimeTypeMessage == <<"Could", "not", "parse", "image", "MIME", "type">>

TimeoutMessage == <<"Request", "timeout", "-", "please", "try", "again">>

EngineMessage(finishReason) == <<"Studio", "Engine", "Error", ":", finishReason>>

\* The messages of errors the service client rejects with.
ForbiddenMessage == <<"got", "status", ":", "403", "Forbidden">>

NetworkMessage == <<"fetch", "failed">>

\* The raw failures a gateway call ends with (after its retries) that the studio
\* is run with: one the classifier names, one it does not.
RawErrors == {SafetyMessage, EngineMessage("OTHER")}

\* The sentences of getFriendlyErrorMessage: one fixed sentence per category;
\* only the fallback sentence names the failed activity.
Sentence(cat) == [cat |-> cat, ctx |-> ""]

FallbackSentence(context) == [cat |-> "Unknown", ctx |-> context]

\* Faulty variant: the timeout test comes before the connection test.
getFriendlyErrorMessage_TimeoutFirst(rawMessage, context) ==
    IF Includes(rawMessage, "SAFETY") THEN Sentence("Safety")
    ELSE IF \/ Includes(rawMessage, "API key not found")
            \/ Includes(rawMessage, "403")
            \/ Includes(rawMessage, "invalid")
            \/ Includes(rawMessage, "API_KEY") THEN Sentence("Auth")
    ELSE IF \/ Includes(rawMessage, "Unsupported MIME type")
            \/ Includes(rawMessage, "mime") THEN Sentence("UnsupportedFormat")
    ELSE IF \/ Includes(rawMessage, "quota")
            \/ Includes(rawMessage, "429")
            \/ Includes(rawMessage, "rate limit") THEN Sentence("Quota")
    ELSE IF Includes(rawMessage, "timeout") THEN Sentence("Timeout")
    ELSE IF \/ Includes(rawMessage, "fetch")
            \/ Includes(rawMessage, "network")
            \/ Includes(rawMessage, "CORS") THEN Sentence("Network")
    ELSE FallbackSentence(context)

\* getFriendlyErrorMessage, from the message of the error on: the chain of
\* includes() tests, in the order of the code.
getFriendlyErrorMessage(rawMessage, context) ==
    IF Includes(rawMessage, "SAFETY") THEN Sentence("Safety")
    ELSE IF \/ Includes(rawMessage, "API key not found")
            \/ Includes(rawMessage, "403")
            \/ Includes(rawMessage, "invalid")
            \/ Includes(rawMessage, "API_KEY") THEN Sentence("Auth")
    ELSE IF \/ Includes(rawMessage, "Unsupported MIME type")
            \/ Includes(rawMessage, "mime") THEN Sentence("UnsupportedFormat")
    ELSE IF \/ Includes(rawMessage, "quota")
            \/ Includes(rawMessage, "429")
            \/ Includes(rawMessage, "rate limit") THEN Sentence("Quota")
    ELSE IF \/ Includes(rawMessage, "fetch")
            \/ Includes(rawMessage, "network")
            \/ Includes(rawMessage, "CORS") THEN Sentence("Network")
    ELSE IF Includes(rawMessage, "timeout") THEN Sentence("Timeout")
    ELSE FallbackSentence(context)

OutfitCalls == {c \in inflight : c.kind \in {"tryOn", "repose", "recolor"}}

\* ---------------------------------------------------------------- try-on
\* WardrobePanel.handleGarmentClick up to its await of urlToFile: the click keeps
\* the onGarmentSelect of the render it happened in. The image id of the try-on
\* call it leads to is taken here, which also keeps two clicks apart.
handleGarmentClick(item) ==
    /\ MainShown
    /\ \E k \in DOMAIN wardrobe : wardrobe[k] = item
    /\ ~isLoading
    /\ item \notin activeGarmentIds
    /\ clock < MaxClock
    /\ clock' = clock + 1
    /\ inflight' = inflight \cup {Suspended("click", clock + 1, item)}
    /\ UNCHANGED <<modelImageUrl, history, historyStep, isLoading, error,
                   currentPoseIndex, wardrobe, styleScore, isScoring, storage,
                   timers>>
    /\ UNCHANGED <<call, report>>

\* handleGarmentSelect up to its await, run with the state captured in c
\* (c.h, c.s, c.pose, c.model; the captured isLoading is false).
GarmentSelectIssue(c, rest) ==
    IF DisplayImage(c.h, c.s, c.pose, c.model) = Null
    THEN /\ inflight' = rest
         /\ UNCHANGED <<error, isLoading>>
    ELSE /\ error' = Null
         /\ isLoading' = TRUE
         /\ inflight' = rest \cup {[c EXCEPT !.kind = "tryOn"]}

\* urlToFile resolved: handleGarmentClick calls the captured onGarmentSelect.
GarmentFileLoaded(c) ==
    /\ c \in inflight
    /\ c.kind = "click"
    /\ GarmentSelectIssue(c, inflight \ {c})
    /\ UNCHANGED <<modelImageUrl, history, historyStep, currentPoseIndex, wardrobe,
                   styleScore, isScoring, storage, timers, clock>>
    /\ UNCHANGED <<call, report>>

\* urlToFile rejected: only the panel's own error line changes.
GarmentFileFailed(c) ==
    /\ c \in inflight
    /\ c.kind = "click"
    /\ inflight' = inflight \ {c}
    /\ UNCHANGED <<modelImageUrl, history, historyStep, isLoading, error,
                   currentPoseIndex, wardrobe, styleScore, isScoring, storage,
                   timers, clock>>
    /\ UNCHANGED <<call, report>>

\* WardrobePanel.handleFileChange: an uploaded garment goes straight to the
\* onGarmentSelect of the current render (the input is disabled while loading).
handleFileChange ==
    /\ MainShown
    /\ ~isLoading
    /\ clock < MaxClock
    /\ clock' = clock + 1
    /\ GarmentSelectIssue(Suspended("click", clock + 1,
                                    [tag |-> "custom", n |-> clock + 1]),
                          inflight)
    /\ UNCHANGED <<modelImageUrl, history, historyStep, currentPoseIndex, wardrobe,
                   styleScore, isScoring, storage, timers>>
    /\ UNCHANGED <<call, report>>

\* Faulty variant: the new layer is committed without its image.
TryOnSnapshot_NoImage(c) ==
    Append(CurrentOutfit(c.h, c.s), [garment |-> c.arg, poseImages |-> <<>>])

\* The snapshot handleGarmentSelect commits: [...currentOutfitHistory, newLayer].
TryOnSnapshot(c) ==
    LET src == DisplayImage(c.h, c.s, c.pose, c.model)
        newImageUrl == Image(c.id, src.pose)
        newLayer == [garment |-> c.arg,
                     poseImages |-> <<[pose |-> c.pose, img |-> newImageUrl]>>]
    IN Append(CurrentOutfit(c.h, c.s), newLayer)

\* Faulty variant: the commit of a try-on also selects the base pose.
TryOnSucceeded_ResetsPose(c) ==
    /\ c \in inflight
    /\ c.kind = "tryOn"
    /\ history' = AddToHistoryHist(c.h, c.s, TryOnSnapshot(c))
    /\ historyStep' = AddToHistoryStep(c.h, c.s, TryOnSnapshot(c))
    /\ styleScore' = Null
    /\ currentPoseIndex' = 0
    /\ isLoading' = FALSE
    /\ inflight' = inflight \ {c}
    /\ UNCHANGED <<modelImageUrl, error, wardrobe, isScoring, storage, timers, clock>>
    /\ UNCHANGED <<call, report>>

\* generateVirtualTryOnImage resolved: the rest of handleGarmentSelect.
TryOnSucceeded(c) ==
    /\ c \in inflight
    /\ c.kind = "tryOn"
    /\ history' = AddToHistoryHist(c.h, c.s, TryOnSnapshot(c))
    /\ historyStep' = AddToHistoryStep(c.h, c.s, TryOnSnapshot(c))
    /\ styleScore' = Null
    /\ isLoading' = FALSE
    /\ inflight' = inflight \ {c}
    /\ UNCHANGED <<modelImageUrl, error, currentPoseIndex, wardrobe, isScoring,
                   storage, timers, clock>>
    /\ UNCHANGED <<call, report>>

\* generateVirtualTryOnImage rejected with raw error e.
TryOnFailed(c, e) ==
    /\ c \in inflight
    /\ c.kind = "tryOn"
    /\ error' = getFriendlyErrorMessage(e, "fitting your selection")
    /\ isLoading' = FALSE
    /\ inflight' = inflight \ {c}
    /\ UNCHANGED <<modelImageUrl, history, historyStep, currentPoseIndex, wardrobe,
                   styleScore, isScoring, storage, timers, clock>>
    /\ UNCHANGED <<call, report>>

\* ---------------------------------------------------------------- poses
\* The snapshot handlePoseSelect commits: the captured snapshot with the new pose
\* image added to its last layer.
ReposeSnapshot(c) ==
    LET cur == CurrentOutfit(c.h, c.s)
        last == Len(cur)
        newImageUrl == Image(c.id, c.arg)
    IN [cur EXCEPT ![last].poseImages = PosePut(cur[last].poseImages, c.arg, newImageUrl)]

\* Faulty variant: the cache is never consulted.
PoseCached_Never(p) == FALSE

\* Whether the last layer of the current snapshot already has an image for label p.
PoseCached(p) ==
    /\ Len(currentOutfitHistory) > 0
    /\ PoseGet(currentOutfitHistory[Len(currentOutfitHistory)].poseImages, p) # Null

\* handlePoseSelect up to its await. The pose bar is rendered only while an image
\* is displayed and nothing is loading.
handlePoseSelect(newIndex) ==
    /\ MainShown
    /\ displayImageUrl # Null
    /\ ~isLoading
    /\ IF Len(currentOutfitHistory) = 0 \/ newIndex = currentPoseIndex
       THEN UNCHANGED <<currentPoseIndex, error, isLoading, inflight, clock>>
       ELSE IF PoseCached(newIndex)
       THEN /\ currentPoseIndex' = newIndex
            /\ UNCHANGED <<error, isLoading, inflight, clock>>
       ELSE /\ clock < MaxClock
            /\ error' = Null
            /\ isLoading' = TRUE
            /\ currentPoseIndex' = newIndex
            /\ clock' = clock + 1
            /\ inflight' = inflight \cup {Suspended("repose", clock + 1, newIndex)}
    /\ UNCHANGED <<modelImageUrl, history, historyStep, wardrobe, styleScore,
                   isScoring, storage, timers>>
    /\ UNCHANGED <<call, report>>

\* generatePoseVariation resolved: the rest of handlePoseSelect.
ReposeSucceeded(c) ==
    /\ c \in inflight
    /\ c.kind = "repose"
    /\ history' = AddToHistoryHist(c.h, c.s, ReposeSnapshot(c))
    /\ historyStep' = AddToHistoryStep(c.h, c.s, ReposeSnapshot(c))
    /\ isLoading' = FALSE
    /\ inflight' = inflight \ {c}
    /\ UNCHANGED <<modelImageUrl, error, currentPoseIndex, wardrobe, styleScore,
                   isScoring, storage, timers, clock>>
    /\ UNCHANGED <<call, report>>

\* Faulty variant: the catch block leaves the optimistic pose index in place.
ReposeFailed_KeepsPose(c, e) ==
    /\ c \in inflight
    /\ c.kind = "repose"
    /\ error' = getFriendlyErrorMessage(e, "re-posing your silhouette")
    /\ isLoading' = FALSE
    /\ inflight' = inflight \ {c}
    /\ UNCHANGED <<modelImageUrl, history, historyStep, currentPoseIndex, wardrobe,
                   styleScore, isScoring, storage, timers, clock>>
    /\ UNCHANGED <<call, report>>

\* generatePoseVariation rejected with raw error e.
ReposeFailed(c, e) ==
    /\ c \in inflight
    /\ c.kind = "repose"
    /\ error' = getFriendlyErrorMessage(e, "re-posing your silhouette")
    /\ currentPoseIndex' = 0
    /\ isLoading' = FALSE
    /\ inflight' = inflight \ {c}
    /\ UNCHANGED <<modelImageUrl, history, historyStep, wardrobe, styleScore,
                   isScoring, storage, timers, clock>>
    /\ UNCHANGED <<call, report>>

\* ---------------------------------------------------------------- recolor
\* handleRecolor up to its await.
handleRecolor(layerIndex) ==
    /\ MainShown
    /\ layerIndex \in DOMAIN currentOutfitHistory
    /\ IF currentOutfitHistory[layerIndex].garment = Null \/ isLoading
       THEN UNCHANGED <<error, isLoading, inflight, clock>>
       ELSE /\ clock < MaxClock
            /\ isLoading' = TRUE
            /\ error' = Null
            /\ clock' = clock + 1
            /\ inflight' = inflight \cup
                   {SuspendedArg("recolor", clock + 1,
                              currentOutfitHistory[layerIndex].garment)}
    /\ UNCHANGED <<modelImageUrl, history, historyStep, currentPoseIndex, wardrobe,
                   styleScore, isScoring, storage, timers>>
    /\ UNCHANGED <<call, report>>

\* Faulty variant: the release timer is never armed.
RecolorReleaseTimers_None(n) == n

\* What happens to the latch when generateColorway has resolved: it stays set and a
\* timer is armed that releases it 1500 ms later.
RecolorReleaseTimers(n) == n + 1

\* Faulty variant: the new colorway takes the place of the last wardrobe item.
RecolorSucceeded_Replaces(c) ==
    /\ c \in inflight
    /\ c.kind = "recolor"
    /\ wardrobe' = [wardrobe EXCEPT ![Len(wardrobe)] = [tag |-> "recolor", n |-> c.id]]
    /\ timers' = RecolorReleaseTimers(timers)
    /\ inflight' = inflight \ {c}
    /\ UNCHANGED <<modelImageUrl, history, historyStep, isLoading, error,
                   currentPoseIndex, styleScore, isScoring, storage, clock>>
    /\ UNCHANGED <<call, report>>

\* generateColorway resolved: the rest of handleRecolor's try block.
RecolorSucceeded(c) ==
    /\ c \in inflight
    /\ c.kind = "recolor"
    /\ wardrobe' = Append(wardrobe, [tag |-> "recolor", n |-> c.id])
    /\ timers' = RecolorReleaseTimers(timers)
    /\ inflight' = inflight \ {c}
    /\ UNCHANGED <<modelImageUrl, history, historyStep, isLoading, error,
                   currentPoseIndex, styleScore, isScoring, storage, clock>>
    /\ UNCHANGED <<call, report>>

\* The timer armed by a successful recolor fires.
RecolorTimerFired ==
    /\ timers > 0
    /\ timers' = timers - 1
    /\ isLoading' = FALSE
    /\ UNCHANGED <<modelImageUrl, history, historyStep, error, currentPoseIndex,
                   wardrobe, styleScore, isScoring, storage, inflight, clock>>
    /\ UNCHANGED <<call, report>>

\* generateColorway rejected with raw error e.
RecolorFailed(c, e) ==
    /\ c \in inflight
    /\ c.kind = "recolor"
    /\ error' = getFriendlyErrorMessage(e, "recoloring your garment")
    /\ isLoading' = FALSE
    /\ inflight' = inflight \ {c}
    /\ UNCHANGED <<modelImageUrl, history, historyStep, currentPoseIndex, wardrobe,
                   styleScore, isScoring, storage, timers, clock>>
    /\ UNCHANGED <<call, report>>

\* ---------------------------------------------------------------- critique
\* The scores the critique service can answer with (generateStyleScore checks only
\* that the score is a number).
ServiceScores == {85, 101}

\* handleGetStyleScore up to its await. The Score button is rendered for outfits
\* of more than one layer and disabled while scoring.
handleGetStyleScore ==
    /\ MainShown
    /\ clock < MaxClock
    /\ clock' = clock + 1
    /\ Len(currentOutfitHistory) > 1
    /\ displayImageUrl # Null
    /\ ~isScoring
    /\ isScoring' = TRUE
    /\ error' = Null
    /\ inflight' = inflight \cup {SuspendedArg("critique", 0, displayImageUrl)}
    /\ UNCHANGED <<modelImageUrl, history, historyStep, isLoading, currentPoseIndex,
                   wardrobe, styleScore, storage, timers>>
    /\ UNCHANGED <<call, report>>

\* generateStyleScore resolved with score sc.
CritiqueSucceeded(c, sc) ==
    /\ c \in inflight
    /\ c.kind = "critique"
    /\ styleScore' = [score |-> sc]
    /\ isScoring' = FALSE
    /\ inflight' = inflight \ {c}
    /\ UNCHANGED <<modelImageUrl, history, historyStep, isLoading, error,
                   currentPoseIndex, wardrobe, storage, timers, clock>>
    /\ UNCHANGED <<call, report>>

\* generateStyleScore rejected with raw error e.
CritiqueFailed(c, e) ==
    /\ c \in inflight
    /\ c.kind = "critique"
    /\ error' = getFriendlyErrorMessage(e, "critiquing your style")
    /\ isScoring' = FALSE
    /\ inflight' = inflight \ {c}
    /\ UNCHANGED <<modelImageUrl, history, historyStep, isLoading, currentPoseIndex,
                   wardrobe, styleScore, storage, timers, clock>>
    /\ UNCHANGED <<call, report>>

\* ---------------------------------------------------------------- wardrobe
\* The Save Look button is rendered for outfits of more than one layer.
handleAddToWardrobe ==
    /\ MainShown
    /\ Len(currentOutfitHistory) > 1
    /\ displayImageUrl # Null
    /\ clock < MaxClock
    /\ wardrobe' = Append(wardrobe, [tag |-> "look", n |-> clock + 1])
    /\ clock' = clock + 1
    /\ UNCHANGED <<modelImageUrl, history, historyStep, isLoading, error,
                   currentPoseIndex, styleScore, isScoring, storage, inflight, timers>>
    /\ UNCHANGED <<call, report>>

\* ---------------------------------------------------------------- specification
Next ==
    \/ Mount
    \/ handleModelFinalized
    \/ undo
    \/ redo
    \/ handleSaveOutfit
    \/ handleLoadOutfit
    \/ \E confirmed \in BOOLEAN : handleStartOver(confirmed)
    \/ handleRemoveLastGarment
    \/ \E k \in DOMAIN wardrobe : handleGarmentClick(wardrobe[k])
    \/ \E c \in inflight : GarmentFileLoaded(c)
    \/ \E c \in inflight : GarmentFileFailed(c)
    \/ handleFileChange
    \/ \E c \in inflight : TryOnSucceeded(c)
    \/ \E c \in inflight, e \in RawErrors : TryOnFailed(c, e)
    \/ \E p \in Poses : handlePoseSelect(p)
    \/ \E c \in inflight : ReposeSucceeded(c)
    \/ \E c \in inflight, e \in RawErrors : ReposeFailed(c, e)
    \/ \E i \in DOMAIN currentOutfitHistory : handleRecolor(i)
    \/ \E c \in inflight : RecolorSucceeded(c)
    \/ RecolorTimerFired
    \/ \E c \in inflight, e \in RawErrors : RecolorFailed(c, e)
    \/ handleGetStyleScore
    \/ \E c \in inflight, sc \in ServiceScores : CritiqueSucceeded(c, sc)
    \/ \E c \in inflight, e \in RawErrors : CritiqueFailed(c, e)
    \/ handleAddToWardrobe

Spec == Init /\ [][Next]_vars

\* A return visit: an earlier visit left a look in localStorage. There the model
\* was finalized, rendered in pose 1, fitted with the first studio garment while
\* in pose 1, and the look was saved (image ids up to 1 are taken).
EarlierLook ==
    [modelImageUrl |-> Image(-1, 0),
     outfitHistory |->
        <<[garment |-> Null,
           poseImages |-> <<[pose |-> 0, img |-> Image(-1, 0)],
                            [pose |-> 1, img |-> Image(0, 1)]>>],
          [garment |-> StudioItem(1),
           poseImages |-> <<[pose |-> 1, img |-> Image(1, 1)]>>]>>,
     wardrobe |-> defaultWardrobe]

\* The state after the first mount of a return visit: fresh state, then the
\* startup effect on the stored look.
ReturnVisitInit ==
    /\ storage = EarlierLook
    /\ modelImageUrl = storage.modelImageUrl
    /\ history = RestoredHistory(storage)
    /\ historyStep = 0
    /\ wardrobe = RestoredWardrobe(storage)
    /\ isLoading = FALSE
    /\ error = Null
    /\ currentPoseIndex = 0
    /\ styleScore = Null
    /\ isScoring = FALSE
    /\ inflight = {}
    /\ timers = 0
    /\ clock = 1
    /\ call = NoCall
    /\ report = NoReport

ReturnVisitSpec == ReturnVisitInit /\ [][Next]_vars

\* A gateway call ends: retryWithBackoff makes a bounded number of attempts and
\* each attempt settles or times out, so a suspended call is always resumed.
OutfitCallEnds ==
    \E c \in inflight :
        \/ TryOnSucceeded(c) \/ ReposeSucceeded(c) \/ RecolorSucceeded(c)
        \/ \E e \in RawErrors :
               TryOnFailed(c, e) \/ ReposeFailed(c, e) \/ RecolorFailed(c, e)

CritiqueCallEnds ==
    \E c \in inflight :
        \/ \E sc \in ServiceScores : CritiqueSucceeded(c, sc)
        \/ \E e \in RawErrors : CritiqueFailed(c, e)

\* The event loop runs every settled promise's continuation and every due timer.
FairSpec ==
    /\ Spec
    /\ WF_vars(OutfitCallEnds)
    /\ WF_vars(CritiqueCallEnds)
    /\ WF_vars(RecolorTimerFired)
\* ---------------------------------------------------------------- gateway
\* geminiService.ts. One call of an exported operation is followed from its first
\* attempt to the value or error it hands to its caller. A string is modelled as
\* the sequence of its tokens, cut so that every marker the code searches for is
\* a token of its own; String.includes is then case-sensitive token membership.
MAX_RETRIES == 3

RETRY_DELAY_MS == 1000

REQUEST_TIMEOUT_MS == 60000

\* The retry budget generateStyleScore passes instead of the default.
STYLE_SCORE_RETRIES == 2

Ops == {"modelize", "tryOn", "repose", "recolor", "critique"}

\* Faulty variant: critique uses the default budget.
RetriesOf_Default(op) == MAX_RETRIES

\* The `retries` argument with which each operation enters retryWithBackoff.
RetriesOf(op) == IF op = "critique" THEN STYLE_SCORE_RETRIES ELSE MAX_RETRIES

\* What one run of the attempt closure gives retryWithBackoff: a value, or an
\* error with its message; `stage` tells whether the request was sent, `ms` how
\* long the attempt waited for the service.
Returned(value, ms) ==
    [ok |-> TRUE, value |-> value, message |-> <<>>, stage |-> "api", ms |-> ms]

Threw(message, stage, ms) ==
    [ok |-> FALSE, value |-> Null, message |-> message, stage |-> stage, ms |-> ms]

\* Image references given to the gateway.
GoodDataUrl == <<"data", ":", "image/png", ";", "base64", ",", "iVBOR">>

HttpUrl == <<"https", ":", "//cdn.example/garment.png">>

NoMimeDataUrl == <<"data", ",", "iVBOR">>

DataUrls == {GoodDataUrl, HttpUrl, NoMimeDataUrl}

\* The least index of a non-empty set of indices.
First(indices) == CHOOSE k \in indices : \A j \in indices : k <= j

\* dataUrlToParts: split on ',', then match /:(.*?);/ in the first piece (the
\* leftmost ':' and the first ';' after it) and require a non-empty group.
dataUrlToParts(dataUrl) ==
    LET commas == {k \in DOMAIN dataUrl : dataUrl[k] = ","}
        c1 == IF commas = {} THEN Len(dataUrl) + 1 ELSE First(commas)
        later == {k \in commas : k > c1}
        c2 == IF later = {} THEN Len(dataUrl) + 1 ELSE First(later)
        colons == {k \in 1 .. (c1 - 1) : dataUrl[k] = ":"}
        i == IF colons = {} THEN 0 ELSE First(colons)
        semis == {k \in (i + 1) .. (c1 - 1) : dataUrl[k] = ";"}
        j == IF semis = {} THEN 0 ELSE First(semis)
    IN IF commas = {} THEN Threw(InvalidDataUrlMessage, "setup", 0)
       ELSE IF colons = {} \/ semis = {} \/ j = i + 1
            THEN Threw(MimeTypeMessage, "setup", 0)
            ELSE Returned([mimeType |-> SubSeq(dataUrl, i + 1, j - 1),
                           data |-> SubSeq(dataUrl, c1 + 1, c2 - 1)], 0)

\* process.env.API_KEY: set, unset, or the placeholder of the sample .env file.
ApiKeys == {"AIza-key", "", "your_api_key_here"}

\* getAIClient
getAIClient(apiKey) ==
    IF apiKey = "" \/ apiKey = "your_api_key_here"
    THEN Threw(ApiKeyMessage, "setup", 0)
    ELSE Returned(apiKey, 0)

\* JSON values of the critique payload, with what `typeof` says of them.
JsonNumber(n) == [t |-> "number", v |-> n]

JsonString(s) == [t |-> "string", v |-> s]

JsonAbsent == [t |-> "undefined", v |-> 0]

\* response.text: empty, not JSON, or the JSON text of an object.
EmptyText == [empty |-> TRUE, json |-> FALSE, value |-> Null]

NotJsonText == [empty |-> FALSE, json |-> FALSE, value |-> Null]

JsonText(score, review) ==
    [empty |-> FALSE, json |-> TRUE, value |-> [score |-> score, review |-> review]]

CritiqueTexts ==
    {EmptyText, NotJsonText,
     JsonText(JsonNumber(70), JsonString("Refined.")),
     JsonText(JsonNumber(101), JsonString("Beyond the scale.")),
     JsonText(JsonAbsent, JsonString("Refined.")),
     JsonText(JsonString("high"), JsonString("Refined.")),
     JsonText(JsonNumber(70), JsonAbsent)}

FallbackStyleScore ==
    [score |-> JsonNumber(85),
     review |-> JsonString("A sophisticated ensemble that demonstrates strong fashion sensibility")]

\* Faulty variant: the parsed object is returned without the typeof checks.
StyleScoreOf_Unvalidated(text) ==
    IF text.empty \/ ~text.json THEN FallbackStyleScore ELSE text.value

\* The inner try/catch of generateStyleScore on response.text.
StyleScoreOf(text) ==
    IF text.empty THEN FallbackStyleScore
    ELSE IF ~text.json THEN FallbackStyleScore
    ELSE IF text.value.score.t # "number" \/ text.value.review.t # "string"
         THEN FallbackStyleScore
         ELSE text.value

\* A GenerateContentResponse: the first candidate's finishReason ("" when there is
\* no candidate) and parts, and the text.
TextPart == [inlineData |-> FALSE, mimeType |-> "", data |-> ""]

ImagePart == [inlineData |-> TRUE, mimeType |-> "image/png", data |-> "GEN"]

ImageResponses ==
    {[finishReason |-> "STOP", parts |-> <<TextPart, ImagePart>>, text |-> EmptyText],
     [finishReason |-> "SAFETY", parts |-> <<>>, text |-> EmptyText],
     [finishReason |-> "OTHER", parts |-> <<TextPart>>, text |-> EmptyText],
     [finishReason |-> "", parts |-> <<>>, text |-> EmptyText]}

CritiqueResponses ==
    {[finishReason |-> "STOP", parts |-> <<TextPart>>, text |-> t] : t \in CritiqueTexts}

\* handleApiResponse, for a response that arrived after ms.
handleApiResponse(response, ms) ==
    LET images == {k \in DOMAIN response.parts : response.parts[k].inlineData}
    IN IF response.finishReason = "SAFETY" THEN Threw(SafetyMessage, "api", ms)
       ELSE IF images # {}
       THEN LET k == CHOOSE i \in images : \A j \in images : i <= j
                part == response.parts[k]
            IN Returned(<<"data", ":", part.mimeType, ";", "base64", ",", part.data>>, ms)
       ELSE Threw(EngineMessage(IF response.finishReason = "" THEN "No data returned"
                                ELSE response.finishReason), "api", ms)

\* What ai.models.generateContent can do with a request: resolve with a response
\* or reject with an error, sooner or later than the timeout.
ServiceLatencies == {REQUEST_TIMEOUT_MS \div 2, REQUEST_TIMEOUT_MS + 1}

ServiceBehaviours(op) ==
    LET responses == IF op = "critique" THEN CritiqueResponses ELSE ImageResponses
    IN {[resolves |-> TRUE, response |-> r, message |-> <<>>, latency |-> l] :
            r \in responses, l \in ServiceLatencies}
       \cup
       {[resolves |-> FALSE, response |-> Null, message |-> m, latency |-> l] :
            m \in {ForbiddenMessage, NetworkMessage}, l \in ServiceLatencies}

\* Faulty variant: the request is awaited without the race.
withTimeout_NoRace(promise, timeoutMs) == promise

\* withTimeout: the request raced against a timer of timeoutMs.
withTimeout(promise, timeoutMs) ==
    IF promise.latency < timeoutMs THEN promise
    ELSE [resolves |-> FALSE, response |-> Null, message |-> TimeoutMessage,
          latency |-> timeoutMs]

\* One run of the closure an operation passes to retryWithBackoff, when the
\* service behaves as `promise`. generateModelImage reads its image from a File
\* (FileReader always yields a well-formed data URL); the others parse `input`.
attempt(op, input, apiKey, promise) ==
    IF ~getAIClient(apiKey).ok THEN getAIClient(apiKey)
    ELSE IF op # "modelize" /\ ~dataUrlToParts(input).ok THEN dataUrlToParts(input)
    ELSE LET settled == withTimeout(promise, REQUEST_TIMEOUT_MS)
         IN IF ~settled.resolves THEN Threw(settled.message, "api", settled.latency)
            ELSE IF op = "critique"
                 THEN Returned(StyleScoreOf(settled.response.text), settled.latency)
                 ELSE handleApiResponse(settled.response, settled.latency)

\* Faulty variant: every error is retried.
NonRetryable_Never(message) == FALSE

\* The catch block's test for errors that are rethrown at once.
NonRetryable(message) ==
    \/ Includes(message, "SAFETY")
    \/ Includes(message, "API_KEY")
    \/ Includes(message, "403")
    \/ Includes(message, "invalid")

\* Faulty variant: the outcome reaches the caller twice.
Deliver_Twice(outcomes, o) == Append(Append(outcomes, o), o)

\* The promise retryWithBackoff returned settles with outcome o.
Deliver(outcomes, o) == Append(outcomes, o)

\* An exported operation is called: retryWithBackoff is entered with the
\* operation's budget and the base delay.
StartCall(op, input, apiKey) ==
    /\ call.phase = "idle"
    /\ op = "modelize" => input = GoodDataUrl
    /\ call' = [phase |-> "pending", op |-> op, input |-> input, apiKey |-> apiKey,
                retries |-> RetriesOf(op), delay |-> RETRY_DELAY_MS,
                log |-> <<>>, delays |-> <<>>, outcomes |-> <<>>]
    /\ UNCHANGED <<appVars, report>>

\* retryWithBackoff's frame c after its attempt gave o: return the value, rethrow
\* the error, or go to the backoff timer.
AfterAttempt(c, o) ==
    IF o.ok
    THEN [c EXCEPT !.phase = "success", !.log = Append(@, o),
                   !.outcomes = Deliver(@, o)]
    ELSE IF NonRetryable(o.message) \/ c.retries <= 0
    THEN [c EXCEPT !.phase = "failure", !.log = Append(@, o),
                   !.outcomes = Deliver(@, o)]
    ELSE [c EXCEPT !.phase = "backoff", !.log = Append(@, o)]

\* `await fn()` and the catch block of retryWithBackoff, up to the backoff timer.
Attempt(promise) ==
    /\ call.phase = "pending"
    /\ call' = AfterAttempt(call, attempt(call.op, call.input, call.apiKey, promise))
    /\ UNCHANGED <<appVars, report>>

\* The backoff timer fires: retryWithBackoff(fn, retries - 1, delay * 2).
BackoffElapsed ==
    /\ call.phase = "backoff"
    /\ call' = [call EXCEPT !.phase = "pending",
                            !.delays = Append(@, call.delay),
                            !.retries = @ - 1,
                            !.delay = @ * 2]
    /\ UNCHANGED <<appVars, report>>

GatewayNext ==
    \/ \E op \in Ops, input \in DataUrls, apiKey \in ApiKeys : StartCall(op, input, apiKey)
    \/ \E promise \in ServiceBehaviours(call.op) : Attempt(promise)
    \/ BackoffElapsed

GatewaySpec == Init /\ [][GatewayNext]_vars

\* Every attempt settles or is cut by the timeout, and every timer fires.
GatewayFairSpec ==
    /\ GatewaySpec
    /\ WF_vars(\E promise \in ServiceBehaviours(call.op) : Attempt(promise))
    /\ WF_vars(BackoffElapsed)

\* ---------------------------------------------------------------- caught errors
\* The words error messages are made of: every marker the two includes() chains
\* look for, and words that are no marker ("Invalid" and "MIME" differ from the
\* markers by case only).
MessageTokens ==
    {"SAFETY", "API key not found", "403", "invalid", "API_KEY",
     "Unsupported MIME type", "mime", "quota", "429", "rate limit",
     "fetch", "network", "CORS", "timeout", "Invalid", "MIME", "failed"}

Messages ==
    UNION {[1 .. n -> MessageTokens] : n \in 0 .. MaxMessageLen}
    \cup {SafetyMessage, ApiKeyMessage, InvalidDataUrlMessage, MimeTypeMessage,
          TimeoutMessage, EngineMessage("OTHER"), ForbiddenMessage, NetworkMessage}

\* The `context` arguments of the catch blocks that report to the user.
Contexts == {"fitting your selection", "re-posing your silhouette"}

\* What a catch block can receive: an Error, a string, or any other value.
Thrown ==
    {[thrown |-> k, message |-> m] : k \in {"Error", "string"}, m \in Messages}
    \cup {[thrown |-> "other", message |-> <<>>]}

\* rawMessage's initial value, kept when the value is neither Error nor string.
DefaultRawMessage == <<"An", "unexpected", "connection", "issue", "occurred.">>

\* The first lines of getFriendlyErrorMessage: the text the tests are run on.
RawMessageOf(err) ==
    IF err.thrown \in {"Error", "string"} THEN err.message ELSE DefaultRawMessage

\* error?.message in retryWithBackoff's catch block: undefined (no test matches)
\* unless the value has a message property.
MessageProperty(err) == IF err.thrown = "Error" THEN err.message ELSE <<>>

\* An attempt rejects with err: what retryWithBackoff's catch block decides
\* (rethrown at once or not) and, once it reaches a handler's catch block, the
\* sentence getFriendlyErrorMessage makes of it.
Caught(err, context) ==
    /\ report' = [thrown |-> err.thrown, message |-> err.message, context |-> context,
                  rethrown |-> NonRetryable(MessageProperty(err)),
                  sentence |-> getFriendlyErrorMessage(RawMessageOf(err), context)]
    /\ UNCHANGED <<appVars, call>>

\* One error is followed per run.
ClassifierNext ==
    /\ report = NoReport
    /\ \E err \in Thrown, context \in Contexts : Caught(err, context)

ClassifierSpec == Init /\ [][ClassifierNext]_vars

\* ---------------------------------------------------------------- properties
\* The steps that commit a snapshot through addToHistory.
CommitStep ==
    \/ handleModelFinalized
    \/ handleRemoveLastGarment /\ Len(currentOutfitHistory) > 1
    \/ handleLoadOutfit /\ storage # Null
    \/ \E c \in inflight : TryOnSucceeded(c) \/ ReposeSucceeded(c)

\* C1: after every commit (model finalized, successful try-on, remove-last-garment,
\* successful pose render, load of a saved look), whatever undo/redo steps came in
\* between, the cursor is on the last snapshot: the redo branch is empty.
C1_HistoryLinearity ==
    [][CommitStep => historyStep' = Len(history') - 1]_vars

\* Commit A, commit B, undo, commit C has run: the head of a two-snapshot history
\* is a try-on made at the third tick, and the cursor is on it.
C1_Witness ==
    /\ Len(history) = 2
    /\ historyStep = 1
    /\ Len(history[2]) = 2
    /\ history[2][2].poseImages[1].img.id = 3

\* C2: in every reachable state the cursor is inside a non-empty history, and it
\* is -1 only when the history is empty.
C2_CursorInRange ==
    /\ historyStep \in -1 .. (Len(history) - 1)
    /\ Len(history) > 0 => historyStep >= 0

\* A call is in flight while the cursor is strictly inside the history.
C2_Witness ==
    /\ Len(history) >= 2
    /\ historyStep < Len(history) - 1
    /\ \E c \in inflight : c.kind = "tryOn"

\* C3: undo and redo only move the cursor, by exactly one when there is room and
\* not at all otherwise; the snapshots stay as they are.
C3_UndoRedoMoveCursorOnly ==
    [][/\ undo => /\ history' = history
                  /\ historyStep > 0 => historyStep' = historyStep - 1
                  /\ historyStep <= 0 => UNCHANGED vars
       /\ redo => /\ history' = history
                  /\ historyStep < Len(history) - 1 => historyStep' = historyStep + 1
                  /\ historyStep >= Len(history) - 1 => UNCHANGED vars]_vars

\* An undo has moved the cursor off the head of a two-snapshot history.
C3_Witness ==
    /\ Len(history) = 2
    /\ historyStep = 0
    /\ ~isLoading

\* C4: a commit made when the cursor is at index c of history h yields h[0..c]
\* followed by the new snapshot, with the cursor on the new snapshot.
C4_CommitTruncatesAtCursor ==
    [][CommitStep =>
          /\ Len(history') = historyStep + 2
          /\ SubSeq(history', 1, historyStep + 1) = SubSeq(history, 1, historyStep + 1)
          /\ historyStep' = historyStep + 1]_vars

\* C5: remove-last-garment changes nothing on a snapshot of one layer; on n >= 2
\* layers it commits the first n-1 layers as the new head, redo branch empty.
C5_RemoveLastGarment ==
    [][handleRemoveLastGarment =>
          LET cur == currentOutfitHistory
              n == Len(cur)
          IN IF n <= 1 THEN UNCHANGED vars
             ELSE /\ history' = Append(SubSeq(history, 1, historyStep + 1),
                                       [k \in 1 .. (n - 1) |-> cur[k]])
                  /\ historyStep' = Len(history') - 1
                  /\ history'[historyStep' + 1][1].garment = Null]_vars

\* A garment was removed: the head is the snapshot before it without its last layer.
C5_Witness ==
    /\ Len(history) >= 3
    /\ historyStep = Len(history) - 1
    /\ Len(history[Len(history) - 1]) = 2
    /\ history[Len(history)] = <<history[Len(history) - 1][1]>>

\* The labels cached in the last layer of the current snapshot.
CachedLabels ==
    IF Len(currentOutfitHistory) = 0 THEN {}
    ELSE PoseKeys(currentOutfitHistory[Len(currentOutfitHistory)].poseImages)

\* C6: selecting a pose whose label already has an image in the last layer of the
\* current snapshot issues no generation call, leaves isLoading, history and the
\* cursor alone and only sets currentPoseIndex, after which the cached image is
\* the one displayed; a generation call is issued only for a label with no image.
C6_PoseCacheHit ==
    [][\A p \in Poses :
          handlePoseSelect(p) =>
              /\ p \in CachedLabels =>
                    /\ inflight' = inflight
                    /\ clock' = clock
                    /\ isLoading' = isLoading
                    /\ history' = history
                    /\ historyStep' = historyStep
                    /\ currentPoseIndex' = p
                    /\ displayImageUrl' =
                          PoseGet(currentOutfitHistory[Len(currentOutfitHistory)].poseImages, p)
                    /\ UNCHANGED <<modelImageUrl, error, wardrobe, styleScore,
                                   isScoring, storage, timers>>
              /\ inflight' # inflight => p \notin CachedLabels]_vars

\* A pose was rendered once and then selected again from the cache: the last
\* layer holds two labels, the first one is selected, the cursor is on the head
\* and no call is in flight.
C6_Witness ==
    /\ Cardinality(CachedLabels) = 2
    /\ currentPoseIndex = 0
    /\ historyStep = Len(history) - 1
    /\ inflight = {}
    /\ ~isLoading

\* C7: at most one outfit-mutating generation call (try-on, repose, recolor) is in
\* flight in every reachable state.
C7_SingleOutfitCall == Cardinality(OutfitCalls) <= 1

\* C8: the commit of a completed try-on or repose call extends the history as it
\* stands when the call completes: every snapshot at or before the cursor at that
\* moment is still in the history after the commit.
C8_CommitKeepsEarlierSnapshots ==
    [][(\E c \in inflight : TryOnSucceeded(c) \/ ReposeSucceeded(c)) =>
          \A i \in 1 .. (historyStep + 1) :
              i \in DOMAIN history' /\ history'[i] = history[i]]_vars

\* A gateway call ends in a terminal failure.
CallFailed(c, e) ==
    \/ TryOnFailed(c, e) \/ ReposeFailed(c, e)
    \/ RecolorFailed(c, e) \/ CritiqueFailed(c, e)

\* C9: when a try-on or repose call (whose record holds the history and cursor at
\* the moment of issue) ends in a terminal failure, history and cursor have the
\* values they had when the call was issued, and an error message is set.
C9_StateAsAtIssue ==
    [][\A c \in inflight, e \in RawErrors :
          (TryOnFailed(c, e) \/ ReposeFailed(c, e)) =>
              /\ history' = c.h
              /\ historyStep' = c.s
              /\ error' # Null]_vars

\* The catch blocks themselves commit nothing: the step that handles a terminal
\* failure leaves history, cursor and wardrobe as they were just before it ran
\* and sets one error message.
FailureHandlingLeavesStoreAlone ==
    [][\A c \in inflight, e \in RawErrors :
          CallFailed(c, e) =>
              /\ history' = history
              /\ historyStep' = historyStep
              /\ wardrobe' = wardrobe
              /\ error' # Null
              /\ error'.cat \in {"Safety", "Unknown"}]_vars

\* C10: whenever isLoading is set it is eventually released, and so is isScoring.
C10_LatchesReleased ==
    /\ isLoading ~> ~isLoading
    /\ isScoring ~> ~isScoring

\* A recolor succeeded and its timer has released the latch.
C10_Witness ==
    /\ \E k \in DOMAIN wardrobe : wardrobe[k].tag = "recolor"
    /\ timers = 0
    /\ inflight = {}
    /\ ~isLoading

\* ---------------------------------------------------------------- gateway properties
\* The outcomes of the attempts made so far, and errors that leave retry budget.
Terminal == {"success", "failure"}

RetryableFailure(o) == ~o.ok /\ ~NonRetryable(o.message)

\* C11: a call whose first two attempts fail with a retryable error and whose
\* third succeeds has waited exactly two backoff delays and hands its caller the
\* third attempt's result; a call whose first attempt is rejected by the safety
\* filter makes no retry, waits no delay and hands on that failure.
C11_RetryBoundary ==
    /\ (/\ Len(call.log) >= 3
        /\ RetryableFailure(call.log[1])
        /\ RetryableFailure(call.log[2])
        /\ call.log[3].ok)
          => /\ call.phase = "success"
             /\ Len(call.log) = 3
             /\ Len(call.delays) = 2
             /\ call.outcomes = <<call.log[3]>>
    /\ (/\ Len(call.log) >= 1
        /\ ~call.log[1].ok
        /\ call.log[1].message = SafetyMessage)
          => /\ call.phase = "failure"
             /\ Len(call.log) = 1
             /\ call.delays = <<>>
             /\ call.outcomes = <<call.log[1]>>

\* A try-on timed out, then met a network error, then got its image.
C11_Witness ==
    /\ call.op = "tryOn"
    /\ call.phase = "success"
    /\ Len(call.log) = 3
    /\ call.log[1].message = TimeoutMessage
    /\ call.log[2].message = NetworkMessage
    /\ Len(call.delays) = 2

\* C12 as stated: an image operation makes at most 3 attempts and critique at
\* most 2.
C12_AttemptsAtMostThreeAndTwo ==
    Len(call.log) <= (IF call.op = "critique" THEN 2 ELSE 3)

\* C12 amended: the budget counts retries, so an image operation makes at most
\* MAX_RETRIES + 1 = 4 attempts and critique at most 2 + 1 = 3; a call that fails
\* after exhausting its budget has made exactly that many.
C12_AttemptsAtMostRetriesPlusOne ==
    /\ call.op \in Ops \ {"critique"} => Len(call.log) <= MAX_RETRIES + 1
    /\ call.op = "critique" => Len(call.log) <= STYLE_SCORE_RETRIES + 1
    /\ (call.phase = "failure" /\ RetryableFailure(call.log[Len(call.log)]))
          => Len(call.log) = (IF call.op = "critique" THEN STYLE_SCORE_RETRIES
                              ELSE MAX_RETRIES) + 1

\* A repose call failed on its fourth attempt, after three backoff delays.
C12_Witness ==
    /\ call.op = "repose"
    /\ call.phase = "failure"
    /\ Len(call.log) = 4
    /\ Len(call.delays) = 3

\* The failures C13 names: safety rejection, authentication or authorization
\* failure, missing or placeholder API key, and the input-encoding errors.
NamedNonRetryable ==
    {SafetyMessage, ApiKeyMessage, ForbiddenMessage, InvalidDataUrlMessage,
     MimeTypeMessage}

\* C13: an attempt that fails with one of the named failures is the only attempt
\* of its call: the failure is rethrown with no backoff delay and no retry.
C13_NamedFailuresNotRetried ==
    \A k \in DOMAIN call.log :
        (~call.log[k].ok /\ call.log[k].message \in NamedNonRetryable)
          => /\ k = Len(call.log)
             /\ call.phase = "failure"
             /\ Len(call.delays) = k - 1
             /\ call.outcomes = <<call.log[k]>>

\* The outcome of the attempt a step has just made.
LastAttempt == call'.log[Len(call'.log)]

\* C14: every attempt, the first and each retry alike, waits for the service no
\* longer than the timeout; an attempt whose request is still unsettled at the
\* timeout fails with the timeout error, which is not classified as a safety or
\* authentication failure: it goes to backoff while retry budget remains and is
\* thrown to the caller only when none is left.
C14_AttemptsBoundedByTimeout ==
    [][\A promise \in ServiceBehaviours(call.op) :
          Attempt(promise) =>
              /\ LastAttempt.ms <= REQUEST_TIMEOUT_MS
              /\ (LastAttempt.stage = "api" /\ promise.latency >= REQUEST_TIMEOUT_MS)
                    => /\ LastAttempt = Threw(TimeoutMessage, "api", REQUEST_TIMEOUT_MS)
                       /\ ~NonRetryable(LastAttempt.message)
                       /\ call.retries > 0 => call'.phase = "backoff"
                       /\ call.retries <= 0 => call'.phase = "failure"]_vars

\* A first attempt and its retry both ran into the timeout.
C14_Witness ==
    /\ Len(call.log) >= 2
    /\ call.log[1] = Threw(TimeoutMessage, "api", REQUEST_TIMEOUT_MS)
    /\ call.log[2] = Threw(TimeoutMessage, "api", REQUEST_TIMEOUT_MS)
    /\ Len(call.delays) >= 1

\* C15: a pending call ends in success or terminal failure, a retryable failure
\* goes back to pending only through a backoff delay, the caller gets exactly one
\* outcome, at the moment the call turns terminal, and nothing happens to a call
\* after that.
C15_CallStateMachine ==
    /\ (call.phase = "pending") ~> (call.phase \in Terminal)
    /\ (call.phase = "backoff") ~> (call.phase = "pending")
    /\ [](IF call.phase \in Terminal THEN Len(call.outcomes) = 1
                                       ELSE call.outcomes = <<>>)
    /\ [][/\ call.phase \in Terminal => call' = call
          /\ call.phase = "backoff" => call'.phase = "pending"
          /\ call.phase = "pending" => call'.phase \in Terminal \cup {"backoff"}]_vars

\* A critique call succeeded on its second attempt.
C15_Witness ==
    /\ call.op = "critique"
    /\ call.phase = "success"
    /\ Len(call.log) = 2
    /\ Len(call.outcomes) = 1

\* A critique text the caller cannot use: empty, not JSON, or an object without
\* a numeric score or without a string review.
Unusable(text) ==
    \/ text.empty
    \/ ~text.json
    \/ text.value.score.t # "number"
    \/ text.value.review.t # "string"

\* C16: when the critique request resolves in time with an unusable text, the
\* attempt returns the fixed fallback: the call succeeds with score 85 at once,
\* with no backoff delay and no retry, and no error reaches the caller.
C16_CritiqueFallback ==
    [][\A promise \in ServiceBehaviours("critique") :
          (/\ call.op = "critique"
           /\ Attempt(promise)
           /\ LastAttempt.stage = "api"
           /\ promise.resolves
           /\ promise.latency < REQUEST_TIMEOUT_MS
           /\ Unusable(promise.response.text))
             => /\ LastAttempt.ok
                /\ LastAttempt.value = FallbackStyleScore
                /\ LastAttempt.value.score = JsonNumber(85)
                /\ call'.phase = "success"
                /\ call'.delays = call.delays
                /\ call'.retries = call.retries
                /\ call'.outcomes = <<LastAttempt>>]_vars

\* A critique call resolved to the fallback on its first attempt.
C16_Witness ==
    /\ call.op = "critique"
    /\ call.phase = "success"
    /\ Len(call.log) = 1
    /\ call.outcomes[1].value = FallbackStyleScore

\* ---------------------------------------------------------------- studio properties
\* C17: restoring a saved look, by the load intent or by the startup effect,
\* yields a history of length 1 whose only snapshot is the saved one, with the
\* cursor at 0, whatever the history and cursor were before.
C17_RestoreYieldsSingleSnapshot ==
    [][((handleLoadOutfit \/ Mount) /\ storage # Null) =>
          /\ history' = <<storage.outfitHistory>>
          /\ historyStep' = 0]_vars

\* The structural changes of the current snapshot other than a try-on commit.
RemovesOrMoves ==
    \/ handleRemoveLastGarment /\ Len(currentOutfitHistory) > 1
    \/ undo /\ historyStep > 0
    \/ redo /\ historyStep < Len(history) - 1

ChangesDisplayedImage ==
    \/ RemovesOrMoves
    \/ \E c \in inflight : TryOnSucceeded(c) \/ ReposeSucceeded(c)
    \/ \E p \in CachedLabels \ {currentPoseIndex} : handlePoseSelect(p)
    \/ handleLoadOutfit /\ storage # Null
    \/ handleStartOver(TRUE)

\* C19: styleScore is null after every operation that changes the displayed image.
C19_ScoreClearedOnImageChange ==
    [][ChangesDisplayedImage => styleScore' = Null]_vars

\* C20: when a repose call fails, currentPoseIndex is set to 0, history and cursor
\* are left unchanged, isLoading is released and the error is shown.
C20_ReposeFailureResetsPose ==
    [][\A c \in inflight, e \in RawErrors :
          ReposeFailed(c, e) =>
              /\ currentPoseIndex' = 0
              /\ history' = history
              /\ historyStep' = historyStep
              /\ isLoading' = FALSE
              /\ error' = getFriendlyErrorMessage(e, "re-posing your silhouette")]_vars

\* A repose call has failed: its message is shown, the base pose is selected, the
\* latch is released and the pose was not added to the layer.
C20_Witness ==
    /\ error = [cat |-> "Unknown", ctx |-> "re-posing your silhouette"]
    /\ currentPoseIndex = 0
    /\ ~isLoading
    /\ inflight = {}
    /\ CachedLabels = {0}

\* ---------------------------------------------------------------- layers
\* The layers at the same position of two snapshots are the same layer: both the
\* base, or both of the same garment.
SameLayerAt(a, b, i) ==
    /\ i \in DOMAIN a
    /\ i \in DOMAIN b
    /\ a[i].garment = b[i].garment

\* Every entry of poseImages a is in b, with the same image.
KeepsEntries(a, b) ==
    \A k \in DOMAIN a : \E j \in DOMAIN b : b[j] = a[k]

\* C22 as stated: whatever the operation, a layer that stays in the current
\* snapshot keeps every pose label it had, with the same image.
C22_PoseImagesOnlyGrow ==
    [][\A i \in DOMAIN currentOutfitHistory :
          SameLayerAt(currentOutfitHistory, currentOutfitHistory', i) =>
              KeepsEntries(currentOutfitHistory[i].poseImages,
                           currentOutfitHistory'[i].poseImages)]_vars

\* C22: the snapshot a successful repose commits is the snapshot its handler
\* started from, with exactly one entry added to the last layer, under the label
\* asked for, which that layer did not have: no label is removed, no image
\* replaced; and every snapshot the commit leaves in history is as it was.
C22_ReposeOnlyAddsALabel ==
    [][\A c \in inflight :
          ReposeSucceeded(c) =>
              LET old == CurrentOutfit(c.h, c.s)
                  new == history'[Len(history')]
                  last == Len(old)
              IN /\ Len(new) = Len(old)
                 /\ \A i \in DOMAIN old :
                        /\ new[i].garment = old[i].garment
                        /\ KeepsEntries(old[i].poseImages, new[i].poseImages)
                        /\ i # last => new[i] = old[i]
                 /\ Len(new[last].poseImages) = Len(old[last].poseImages) + 1
                 /\ new[last].poseImages[Len(new[last].poseImages)].pose = c.arg
                 /\ \A k \in 1 .. (Len(history') - 1) : history'[k] = c.h[k]]_vars

\* A repose has been committed on a garment layer that already had its pose-0
\* image: the layer now has both entries, the old one first.
C22_Witness ==
    /\ Len(currentOutfitHistory) = 2
    /\ Len(currentOutfitHistory[2].poseImages) = 2
    /\ currentOutfitHistory[2].poseImages[1].pose = 0
    /\ currentOutfitHistory[2].poseImages[2].pose = 1
    /\ inflight = {}

\* C23: every snapshot in history is non-empty, has the base layer (no garment)
\* at index 0 and a garment at every other index, and each of its layers has at
\* least one pose image.
C23_SnapshotsWellFormed ==
    \A k \in DOMAIN history :
        /\ history[k] # <<>>
        /\ \A i \in DOMAIN history[k] :
               /\ (history[k][i].garment = Null) <=> (i = 1)
               /\ history[k][i].poseImages # <<>>

\* Two garments are worn over the base: the head snapshot has three layers.
C23_Witness ==
    /\ history # <<>>
    /\ Len(history[Len(history)]) = 3
    /\ historyStep = Len(history) - 1

\* C24: a stored style score is an integer from 1 to 100.
C24_ScoreInRange ==
    styleScore # Null => styleScore.score \in 1 .. 100

\* C25: the displayed image is the image the last layer of the current snapshot
\* has under the label of currentPoseIndex if it has one, else the first pose
\* image of that layer, else null (also when there is no current snapshot).
C25_DisplayedImage ==
    IF currentOutfitHistory = <<>> THEN displayImageUrl = Null
    ELSE LET pi == currentOutfitHistory[Len(currentOutfitHistory)].poseImages
         IN IF \E k \in DOMAIN pi : pi[k].pose = currentPoseIndex
            THEN \E k \in DOMAIN pi :
                     pi[k].pose = currentPoseIndex /\ displayImageUrl = pi[k].img
            ELSE IF pi # <<>> THEN displayImageUrl = pi[1].img
            ELSE displayImageUrl = Null

\* With no call in flight, the last layer has no image for the selected pose and
\* its first image, of another pose, is displayed.
C25_Witness ==
    /\ inflight = {}
    /\ currentOutfitHistory # <<>>
    /\ LET pi == currentOutfitHistory[Len(currentOutfitHistory)].poseImages
       IN /\ \A k \in DOMAIN pi : pi[k].pose # currentPoseIndex
          /\ displayImageUrl = pi[1].img

\* C26: while no model image is set, history is empty and the cursor is -1.
C26_NoModelNoHistory ==
    modelImageUrl = Null => (history = <<>> /\ historyStep = -1)

\* C27: a critique result that arrives when the displayed image is no longer the
\* image that was sent leaves styleScore as it is.
C27_StaleCritiqueDropped ==
    [][\A c \in inflight, sc \in ServiceScores :
          (CritiqueSucceeded(c, sc) /\ displayImageUrl # c.arg) =>
              styleScore' = styleScore]_vars

\* C28: in every snapshot of history, the image stored under a pose label shows
\* that pose.
C28_PoseLabelsFaithful ==
    \A k \in DOMAIN history :
        \A i \in DOMAIN history[k] :
            \A j \in DOMAIN history[k][i].poseImages :
                history[k][i].poseImages[j].img.pose = history[k][i].poseImages[j].pose

\* C30: a successful recolor leaves history, cursor and pose index as they are,
\* keeps every wardrobe item and appends one item with a 'recolor-' id; a recolor
\* asked for the base layer, or while isLoading is set, issues no call and
\* changes nothing.
C30_RecolorFrame ==
    [][/\ \A c \in inflight :
            RecolorSucceeded(c) =>
                /\ history' = history
                /\ historyStep' = historyStep
                /\ currentPoseIndex' = currentPoseIndex
                /\ Len(wardrobe') = Len(wardrobe) + 1
                /\ \A k \in DOMAIN wardrobe : wardrobe'[k] = wardrobe[k]
                /\ wardrobe'[Len(wardrobe')].tag = "recolor"
       /\ \A layerIndex \in DOMAIN currentOutfitHistory :
            (/\ handleRecolor(layerIndex)
             /\ currentOutfitHistory[layerIndex].garment = Null \/ isLoading) =>
                /\ inflight' = inflight
                /\ UNCHANGED appVars]_vars

\* The garment of the second layer has been recolored: the wardrobe holds the
\* seed items and the new colorway, and the outfit is as the try-on left it.
C30_Witness ==
    /\ Len(wardrobe) = NumGarments + 1
    /\ wardrobe[NumGarments + 1].tag = "recolor"
    /\ \A k \in 1 .. NumGarments : wardrobe[k] = defaultWardrobe[k]
    /\ Len(history) = 2
    /\ historyStep = 1
    /\ inflight = {}

\* ---------------------------------------------------------------- error reports
\* The categories in the order their tests are documented, with their markers.
CategoryMarkers ==
    <<[cat |-> "Safety", markers |-> {"SAFETY"}],
      [cat |-> "Auth", markers |-> {"API key not found", "403", "invalid", "API_KEY"}],
      [cat |-> "UnsupportedFormat", markers |-> {"Unsupported MIME type", "mime"}],
      [cat |-> "Quota", markers |-> {"quota", "429", "rate limit"}],
      [cat |-> "Network", markers |-> {"fetch", "network", "CORS"}],
      [cat |-> "Timeout", markers |-> {"timeout"}]>>

\* The first category one of whose markers occurs in the message; else Unknown.
FirstMatch(message) ==
    LET hits == {k \in DOMAIN CategoryMarkers :
                    \E t \in CategoryMarkers[k].markers :
                        \E j \in DOMAIN message : message[j] = t}
    IN IF hits = {} THEN "Unknown"
       ELSE CategoryMarkers[CHOOSE k \in hits : \A l \in hits : k <= l].cat

\* C21: whatever is caught, the sentence reported is the one of the first category
\* (in the order Safety, Auth, UnsupportedFormat, Quota, Network, Timeout, else
\* Unknown) whose marker the message contains; it is fixed by the category alone,
\* except that the Unknown sentence names the failed activity, and so it never
\* carries the raw message.
C21_FirstMatchFixedSentence ==
    report # NoReport =>
        LET cat == FirstMatch(RawMessageOf(report))
        IN report.sentence =
               [cat |-> cat, ctx |-> IF cat = "Unknown" THEN report.context ELSE ""]

\* A message with a connection marker and the timeout marker was caught: the
\* earlier category of the two, Network, was reported.
C21_Witness ==
    /\ report # NoReport
    /\ report.thrown = "Error"
    /\ report.message = <<"timeout", "fetch">>
    /\ report.sentence.cat = "Network"

\* C29: the retry wrapper and the classifier agree: an error is rethrown at once
\* by retryWithBackoff exactly when getFriendlyErrorMessage reports it as a safety
\* rejection or an authentication failure.
C29_RetryAgreesWithClassifier ==
    report # NoReport =>
        (report.rethrown <=> report.sentence.cat \in {"Safety", "Auth"})

====
